---- MODULE Spec2Model ----
(***************************************************************************)
(* Model of config_gen.py (YCM-Generator): main, fake_build, parse_flags   *)
(* and split_flags.  Strings are sequences of one-character strings, so    *)
(* that the regular expressions, the whitespace split, the quote merge and *)
(* the string comparisons of the program are computed character by         *)
(* character.                                                              *)
(***************************************************************************)
EXTENDS Integers, Sequences, FiniteSets, TLC

(***************************************************************************)
(* Bounds of the model.                                                    *)
(***************************************************************************)
\* Most lines the fake toolchain appends to the C log in one run.
MaxCLines == 2
\* Most lines the fake toolchain appends to the C++ log in one run.
MaxCxxLines == 1

(***************************************************************************)
(* Characters and Python 2 str comparison (byte order).                    *)
(***************************************************************************)
\* The ASCII characters 32 (space) to 95 (underscore), in code order.
AsciiLow ==
    << " ", "!", "\"", "#", "$", "%", "&", "'", "(", ")", "*", "+", ",", "-",
       ".", "/", "0", "1", "2", "3", "4", "5", "6", "7", "8", "9", ":", ";",
       "<", "=", ">", "?", "@", "A", "B", "C", "D", "E", "F", "G", "H", "I",
       "J", "K", "L", "M", "N", "O", "P", "Q", "R", "S", "T", "U", "V", "W",
       "X", "Y", "Z", "[", "\\", "]", "^", "_" >>

\* The ASCII characters 97 (a) to 126 (tilde), in code order.
AsciiHigh ==
    << "a", "b", "c", "d", "e", "f", "g", "h", "i", "j", "k", "l", "m", "n",
       "o", "p", "q", "r", "s", "t", "u", "v", "w", "x", "y", "z", "{", "|",
       "}", "~" >>

\* The byte value of every character the model uses.
OrdTable ==
    [c \in {AsciiLow[i] : i \in DOMAIN AsciiLow}
            \cup {AsciiHigh[i] : i \in DOMAIN AsciiHigh} \cup {"\n", "\t"} |->
        IF c = "\n" THEN 10
        ELSE IF c = "\t" THEN 9
        ELSE IF \E i \in DOMAIN AsciiLow : AsciiLow[i] = c
             THEN 31 + (CHOOSE i \in DOMAIN AsciiLow : AsciiLow[i] = c)
             ELSE 96 + (CHOOSE i \in DOMAIN AsciiHigh : AsciiHigh[i] = c)]

Ord(c) == OrdTable[c]

\* Python 2 str "<": byte-wise lexicographic, a proper prefix is smaller.
RECURSIVE StrLessFrom(_, _, _)
StrLessFrom(s, t, i) ==
    IF i > Len(s) THEN i <= Len(t)
    ELSE IF i > Len(t) THEN FALSE
    ELSE IF s[i] = t[i] THEN StrLessFrom(s, t, i + 1)
    ELSE Ord(s[i]) < Ord(t[i])

StrLess(s, t) == StrLessFrom(s, t, 1)

\* Character classes of the regular expressions.
IsDigit(c) == Ord(c) >= 48 /\ Ord(c) <= 57
IsLower(c) == Ord(c) >= 97 /\ Ord(c) <= 122
IsUpper(c) == Ord(c) >= 65 /\ Ord(c) <= 90
IsAlnum(c) == IsDigit(c) \/ IsLower(c) \/ IsUpper(c)
\* str.strip() and str.split() without arguments split on whitespace.
IsSpace(c) == c \in {" ", "\n", "\t"}

\* s[i..] starts with the literal p.
StartsWithAt(s, i, p) ==
    /\ i >= 1
    /\ i + Len(p) - 1 <= Len(s)
    /\ \A k \in 1..Len(p) : s[i + k - 1] = p[k]

(***************************************************************************)
(* split_flags and unbalanced_quotes.                                      *)
(***************************************************************************)
RECURSIVE CountChar(_, _, _)
CountChar(s, c, i) ==
    IF i > Len(s) THEN 0
    ELSE (IF s[i] = c THEN 1 ELSE 0) + CountChar(s, c, i + 1)

unbalanced_quotes(s) ==
    \/ CountChar(s, "'", 1) % 2 = 1
    \/ CountChar(s, "\"", 1) % 2 = 1

\* line.strip().split(): the maximal runs of non-whitespace characters.
RECURSIVE SplitFrom(_, _, _, _)
SplitFrom(s, i, cur, acc) ==
    IF i > Len(s) THEN (IF cur = << >> THEN acc ELSE Append(acc, cur))
    ELSE IF IsSpace(s[i])
         THEN SplitFrom(s, i + 1, << >>, IF cur = << >> THEN acc ELSE Append(acc, cur))
         ELSE SplitFrom(s, i + 1, Append(cur, s[i]), acc)

WhitespaceSplit(s) == SplitFrom(s, 1, << >>, << >>)

\* Pass 2: a word is merged into the previous one while that one holds an
\* odd number of single or of double quotes.
RECURSIVE MergeQuoted(_, _, _)
MergeQuoted(words, i, res) ==
    IF i > Len(words) THEN res
    ELSE IF Len(res) > 0 /\ unbalanced_quotes(res[Len(res)])
         THEN MergeQuoted(words, i + 1,
                  [res EXCEPT ![Len(res)] = res[Len(res)] \o << " " >> \o words[i]])
         ELSE MergeQuoted(words, i + 1, Append(res, words[i]))

split_flags(line) == MergeQuoted(WhitespaceSplit(line), 1, << >>)

(***************************************************************************)
(* The regular expressions of parse_flags.                                 *)
(***************************************************************************)
\* [a-zA-Z0-9._]
IsTmpNameChar(c) == IsAlnum(c) \/ c = "." \/ c = "_"

\* (-o ([a-zA-Z0-9._].tmp)) at position i; "." matches all but a newline.
TmpOutputAt(line, i) ==
    /\ StartsWithAt(line, i, << "-", "o", " " >>)
    /\ i + 7 <= Len(line)
    /\ IsTmpNameChar(line[i + 3])
    /\ line[i + 4] # "\n"
    /\ StartsWithAt(line, i + 5, << "t", "m", "p" >>)


\* Mutant: the /dev/null alternative is left out of the pattern.
temp_output_NoDevNull(line) ==
    \E i \in 1..Len(line) :
        \/ StartsWithAt(line, i, << "-", "x", " ", "a", "s", "s", "e", "m", "b", "l", "e", "r" >>)
        \/ TmpOutputAt(line, i)

\* temp_output.search(line)
temp_output(line) ==
    \E i \in 1..Len(line) :
        \/ StartsWithAt(line, i, << "-", "x", " ", "a", "s", "s", "e", "m", "b", "l", "e", "r" >>)
        \/ TmpOutputAt(line, i)
        \/ StartsWithAt(line, i, << "/", "d", "e", "v", "/", "n", "u", "l", "l" >>)

\* [a-z0-9+]
IsStdChar(c) == IsLower(c) \/ IsDigit(c) \/ c = "+"

\* flags_whitelist.match(word): the five anchored alternatives.
flags_whitelist(word) ==
    \/ /\ Len(word) >= 2
       /\ word[1] = "-"
       /\ word[2] \in {"i", "I", "D", "F"}
       /\ \A k \in 3..Len(word) : word[k] # "\n"
    \/ /\ StartsWithAt(word, 1, << "-", "W" >>)
       /\ \A k \in 3..Len(word) : word[k] # ","
    \/ /\ StartsWithAt(word, 1, << "-", "s", "t", "d", "=" >>)
       /\ Len(word) >= 6
       /\ \A k \in 6..Len(word) : IsStdChar(word[k])
    \/ word \in { << "-", "s", "t", "d", "l", "i", "b" >>,
                  << "-", "s", "t", "d", "i", "n", "c" >>,
                  << "-", "n", "o", "s", "t", "d", "l", "i", "b" >>,
                  << "-", "n", "o", "s", "t", "d", "i", "n", "c" >> }
    \/ /\ StartsWithAt(word, 1, << "-", "m" >>)
       /\ Len(word) >= 3
       /\ \A k \in 3..Len(word) : IsDigit(word[k])

\* [a-zA-Z0-9_]
IsMacroNameChar(c) == IsAlnum(c) \/ c = "_"

\* The end of the longest run of macro-name characters that starts at i.
RECURSIVE NameEnd(_, _)
NameEnd(word, i) ==
    IF i <= Len(word) /\ IsMacroNameChar(word[i]) THEN NameEnd(word, i + 1) ELSE i

\* define_regex.match(word): "-D([a-zA-Z0-9_]+)=(.*)".
define_regex(word) ==
    /\ StartsWithAt(word, 1, << "-", "D" >>)
    /\ NameEnd(word, 3) > 3
    /\ NameEnd(word, 3) <= Len(word)
    /\ word[NameEnd(word, 3)] = "="

\* m.group(1) and m.group(2) of a matching word; (.*) stops at a newline,
\* which no word holds.
define_name(word) == SubSeq(word, 3, NameEnd(word, 3) - 1)
define_value(word) == SubSeq(word, NameEnd(word, 3) + 1, Len(word))

\* mRegex: "^-m[0-9]+$"
mRegex(word) ==
    /\ StartsWithAt(word, 1, << "-", "m" >>)
    /\ Len(word) >= 3
    /\ \A k \in 3..Len(word) : IsDigit(word[k])

(***************************************************************************)
(* parse_flags.  A flag is a str or a 2-tuple of str; a record with a type  *)
(* tag holds either, so that the two never compare equal.                   *)
(***************************************************************************)
Opaque(word) == [t |-> "str", w |-> word, arg |-> << >>]
Pair(word, argument) == [t |-> "tuple", w |-> word, arg |-> argument]

filename_flags ==
    { << "-", "o" >>,
      << "-", "I" >>,
      << "-", "i", "s", "y", "s", "t", "e", "m" >>,
      << "-", "i", "q", "u", "o", "t", "e" >>,
      << "-", "i", "n", "c", "l", "u", "d", "e" >>,
      << "-", "i", "m", "a", "c", "r", "o", "s" >>,
      << "-", "i", "s", "y", "s", "r", "o", "o", "t" >> }

\* The loop's first test: the word is skipped unless it is a whitelisted option.
Kept(word) == word[1] = "-" /\ flags_whitelist(word)


\* Mutant: the test of the next word's first character is left out.
Bundles_NoDashTest(words, i) ==
    /\ i # Len(words)
    /\ words[i] \in filename_flags

\* "i != len(words) - 1 and word in filename_flags and words[i + 1][0] != '-'"
\* (indices from 1 here).
Bundles(words, i) ==
    /\ i # Len(words)
    /\ words[i] \in filename_flags
    /\ words[i + 1][1] # "-"

\* The state of the loop: flags, define_flags, line_count, skip_count.
ParseInit ==
    [flags |-> {}, define_flags |-> << >>, line_count |-> 0, skip_count |-> 0]

\* The macro branch: a new name starts a list, a new value is appended.
RecordDefine(define_flags, name, value) ==
    IF name \notin DOMAIN define_flags
    THEN define_flags @@ (name :> << value >>)
    ELSE IF \A k \in DOMAIN define_flags[name] : define_flags[name][k] # value
         THEN [define_flags EXCEPT ![name] = Append(@, value)]
         ELSE define_flags

\* One iteration of "for (i, word) in enumerate(words)".
ProcessWord(st, words, i) ==
    IF ~Kept(words[i]) THEN st
    ELSE IF define_regex(words[i])
         THEN [st EXCEPT !.define_flags =
                   RecordDefine(@, define_name(words[i]), define_value(words[i]))]
         ELSE IF Bundles(words, i)
              THEN [st EXCEPT !.flags = @ \cup {Pair(words[i], words[i + 1])}]
              ELSE [st EXCEPT !.flags = @ \cup {Opaque(words[i])}]

\* The iterations i..last of the loop over the words of a line.
RECURSIVE ProcessWordsTo(_, _, _, _)
ProcessWordsTo(st, words, i, last) ==
    IF i > last THEN st
    ELSE ProcessWordsTo(ProcessWord(st, words, i), words, i + 1, last)

ProcessWords(st, words, i) == ProcessWordsTo(st, words, i, Len(words))

\* One iteration of "for line in build_log".
ProcessLine(st, line) ==
    IF temp_output(line)
    THEN [st EXCEPT !.skip_count = @ + 1]
    ELSE ProcessWords([st EXCEPT !.line_count = @ + 1], split_flags(line), 1)

RECURSIVE ProcessLines(_, _, _)
ProcessLines(st, build_log, i) ==
    IF i > Len(build_log) THEN st
    ELSE ProcessLines(ProcessLine(st, build_log[i]), build_log, i + 1)

\* word_flags: the str flags that match mRegex.
word_flags(flags) == {f \in flags : f.t = "str" /\ mRegex(f.w)}

\* max(word_flags) on str.
MaxFlag(fs) == CHOOSE f \in fs : \A g \in fs : ~StrLess(f.w, g.w)


\* Mutant: every word size collected is kept.
CollapseWordFlags_KeepAll(flags) == flags

\* "Only specify one word size (the largest)".
CollapseWordFlags(flags) ==
    IF Cardinality(word_flags(flags)) > 1
    THEN (flags \ word_flags(flags)) \cup {MaxFlag(word_flags(flags))}
    ELSE flags

\* list.sort() on a list of distinct str.
RECURSIVE SortStrings(_)
SortStrings(values) ==
    IF values = << >> THEN << >>
    ELSE LET k == CHOOSE k \in DOMAIN values :
                      \A j \in DOMAIN values : ~StrLess(values[j], values[k])
         IN  << values[k] >> \o
             SortStrings(SubSeq(values, 1, k - 1) \o SubSeq(values, k + 1, Len(values)))


\* Mutant: the values are left in the order they were recorded.
ResolveValues_Unsorted(values) == values

\* The list of a macro's values after "if(len(values) > 1): values.sort()".
ResolveValues(values) ==
    IF Len(values) > 1 THEN SortStrings(values) ELSE values

\* "-D{}={}".format(name, values[0])
DefineFlag(name, values) ==
    Opaque(<< "-", "D" >> \o name \o << "=" >> \o ResolveValues(values)[1])

\* The macros for which parse_flags prints its WARNING.
Warnings(define_flags) == {n \in DOMAIN define_flags : Len(define_flags[n]) > 1}

\* Python 2 orders a str before a tuple, str by bytes, tuples by their items.
FlagLess(f, g) ==
    IF f.t # g.t THEN f.t = "str"
    ELSE IF f.w # g.w THEN StrLess(f.w, g.w)
    ELSE StrLess(f.arg, g.arg)

\* sorted(flags)
RECURSIVE SortedFlags(_)
SortedFlags(flags) ==
    IF flags = {} THEN << >>
    ELSE LET m == CHOOSE f \in flags : \A g \in flags \ {f} : FlagLess(f, g)
         IN  << m >> \o SortedFlags(flags \ {m})

\* The code after the loop: the collapse, the macros, the sort and the return.
ParseFinish(st) ==
    [line_count |-> st.line_count,
     skip_count |-> st.skip_count,
     warnings |-> Warnings(st.define_flags),
     flags |-> SortedFlags(CollapseWordFlags(st.flags) \cup
                   {DefineFlag(n, st.define_flags[n]) : n \in DOMAIN st.define_flags})]

\* parse_flags(build_log), with the warnings it prints.
parse_flags(build_log) == ParseFinish(ProcessLines(ParseInit, build_log, 1))

(***************************************************************************)
(* The lines the fake toolchain can append to the logs: one compiler       *)
(* invocation each, as the shim writes it, newline included.               *)
(***************************************************************************)
\* cc -I /inc -DX=1 -Wall\n
LineBundle ==
    << "c", "c", " ", "-", "I", " ", "/", "i", "n", "c", " ", "-", "D", "X",
       "=", "1", " ", "-", "W", "a", "l", "l", "\n" >>

\* cc -I -Wall -DX=2 -m32\n
LineBareOpt ==
    << "c", "c", " ", "-", "I", " ", "-", "W", "a", "l", "l", " ", "-", "D",
       "X", "=", "2", " ", "-", "m", "3", "2", "\n" >>

\* cc -m64 -DX=10 -o a.o -isystem\n
LineLastOpt ==
    << "c", "c", " ", "-", "m", "6", "4", " ", "-", "D", "X", "=", "1", "0",
       " ", "-", "o", " ", "a", ".", "o", " ", "-", "i", "s", "y", "s", "t",
       "e", "m", "\n" >>

\* cc -S a.c -DY=1\n
LineAsmOut ==
    << "c", "c", " ", "-", "S", " ", "a", ".", "c", " ", "-", "D", "Y", "=",
       "1", "\n" >>

\* cc -E -DM=<dq>a b<dq> a.c\n   (<dq> is a double quote)
LinePreproc ==
    << "c", "c", " ", "-", "E", " ", "-", "D", "M", "=", "\"", "a", " ", "b",
       "\"", " ", "a", ".", "c", "\n" >>

\* cc -DZ=1 -o /dev/null\n
LineDevNull ==
    << "c", "c", " ", "-", "D", "Z", "=", "1", " ", "-", "o", " ", "/", "d",
       "e", "v", "/", "n", "u", "l", "l", "\n" >>

\* cc -x assembler -m16\n
LineAsmInput ==
    << "c", "c", " ", "-", "x", " ", "a", "s", "s", "e", "m", "b", "l", "e",
       "r", " ", "-", "m", "1", "6", "\n" >>

\* cc -Wx -o a.tmp\n
LineTmpOut ==
    << "c", "c", " ", "-", "W", "x", " ", "-", "o", " ", "a", ".", "t", "m",
       "p", "\n" >>

\* c++ -c a.cc\n
LineCxxPlain ==
    << "c", "+", "+", " ", "-", "c", " ", "a", ".", "c", "c", "\n" >>

\* c++ -std=c++11 -DX=1\n
LineCxxFlags ==
    << "c", "+", "+", " ", "-", "s", "t", "d", "=", "c", "+", "+", "1", "1",
       " ", "-", "D", "X", "=", "1", "\n" >>

\* The invocations of the C compiler a build can make.
CLines ==
    {LineBundle, LineBareOpt, LineLastOpt, LineAsmOut, LinePreproc,
     LineDevNull, LineAsmInput, LineTmpOut}

\* The invocations of the C++ compiler a build can make.
CxxLines == {LineCxxPlain, LineCxxFlags}

(***************************************************************************)
(* The state of one run of config_gen.py.                                  *)
(***************************************************************************)
VARIABLES
    pc,             \* the position of the run in main and fake_build
    exit_status,    \* the exit status of the process, NoStatus while it runs
    outcome,        \* which exit path the run took
    c_build_log,    \* the lines of the C log file
    cxx_build_log,  \* the lines of the C++ log file
    logfile,        \* the two NamedTemporaryFile: on disk or not, delete flag
    build_system,   \* fake_build's build_system after detection
    plan,           \* the subprocesses the chosen branch still has to run
    running,        \* the subprocess subprocess.call is waiting for
    env,            \* the names set in fake_build's env
    env_config,     \* the names set in fake_build's env_config
    returned,       \* the subprocesses of this fake_build that have returned
    build_done,     \* fake_build has returned to main
    pos,            \* the next line parse_flags reads from its log
    acc,            \* the loop state of the parse_flags call in progress
    c_result,       \* (c_count, c_skip, c_flags) and the warnings printed
    cxx_result,     \* (cxx_count, cxx_skip, cxx_flags) and the warnings printed
    force_lang,     \* the -x argument: "none", "c" or "c++"
    lang,           \* the selected language
    config_file     \* the artifact generate_conf has written, if any

vars ==
    << pc, exit_status, outcome, c_build_log, cxx_build_log, logfile,
       build_system, plan, running, env, env_config, returned, build_done,
       pos, acc, c_result, cxx_result, force_lang, lang, config_file >>

build_vars == << build_system, plan, running, env, env_config, returned, build_done >>
log_vars == << c_build_log, cxx_build_log >>
parse_vars == << pos, acc, c_result, cxx_result >>
select_vars == << force_lang, lang, config_file >>

\* The process has not exited.
NoStatus == 0 - 1

\* The exit statuses of the exit paths.
ProjectDirExit == 1
NoClangExit == 1
NoClangxxExit == 1
DeclinedExit == 1
ProFilesExit == 1

\* Mutant: the unknown build system exits like the other errors.
UnknownBuildSystemExit_Generic == ProFilesExit

UnknownBuildSystemExit == 2
EmptyLogExit == 3
\* main returns None and sys.exit(None) exits with status 0.
SuccessExit == 0
\* An uncaught exception (a failed assert, OSError) ends the interpreter
\* with status 1.
UncaughtExceptionExit == 1

NoProcess == [cmd |-> "none", env |-> {}]
NoResult == [line_count |-> 0, skip_count |-> 0, warnings |-> {}, flags |-> << >>]
NoFile == [written |-> FALSE, flags |-> << >>]
NoLogFiles ==
    [c |-> [exists |-> FALSE, delete |-> TRUE],
     cxx |-> [exists |-> FALSE, delete |-> TRUE]]

\* Mutant: close() removes the file whatever its delete attribute says.
CloseLogs_AlwaysRemove(f) ==
    [c |-> [f.c EXCEPT !.exists = FALSE],
     cxx |-> [f.cxx EXCEPT !.exists = FALSE]]

\* Leaving the two with blocks closes both NamedTemporaryFile, and close()
\* removes the file when its delete attribute is still True.
CloseLogs(f) ==
    [c |-> [f.c EXCEPT !.exists = f.c.exists /\ ~f.c.delete],
     cxx |-> [f.cxx EXCEPT !.exists = f.cxx.exists /\ ~f.cxx.delete]]

Init ==
    /\ pc = "main_project_dir"
    /\ exit_status = NoStatus
    /\ outcome = "none"
    /\ c_build_log = << >>
    /\ cxx_build_log = << >>
    /\ logfile = NoLogFiles
    /\ build_system = "none"
    /\ plan = << >>
    /\ running = NoProcess
    /\ env = {}
    /\ env_config = {}
    /\ returned = << >>
    /\ build_done = FALSE
    /\ pos = 1
    /\ acc = ParseInit
    /\ c_result = NoResult
    /\ cxx_result = NoResult
    /\ force_lang = "none"
    /\ lang = "none"
    /\ config_file = NoFile

\* The process ends with `status`; `kind` names the exit path.  Every exit
\* leaves the with blocks that are open.
Exit(status, kind) ==
    /\ pc' = "exit"
    /\ exit_status' = status
    /\ outcome' = kind
    /\ logfile' = CloseLogs(logfile)

(***************************************************************************)
(* main, up to the call of fake_build.                                     *)
(***************************************************************************)
\* "verify that project_dir exists"
CheckProjectDir ==
    /\ pc = "main_project_dir"
    /\ \E exists \in BOOLEAN :
          IF exists
          THEN pc' = "main_which_cc" /\ UNCHANGED << exit_status, outcome, logfile >>
          ELSE Exit(ProjectDirExit, "ProjectDirMissing")
    /\ UNCHANGED << log_vars, build_vars, parse_vars, select_vars >>

\* "which clang"
WhichCC ==
    /\ pc = "main_which_cc"
    /\ \E found \in BOOLEAN :
          IF found
          THEN pc' = "main_which_cxx" /\ UNCHANGED << exit_status, outcome, logfile >>
          ELSE Exit(NoClangExit, "EnvironmentUnavailable")
    /\ UNCHANGED << log_vars, build_vars, parse_vars, select_vars >>

\* "which clang++"
WhichCXX ==
    /\ pc = "main_which_cxx"
    /\ \E found \in BOOLEAN :
          IF found
          THEN pc' = "main_overwrite" /\ UNCHANGED << exit_status, outcome, logfile >>
          ELSE Exit(NoClangxxExit, "EnvironmentUnavailable")
    /\ UNCHANGED << log_vars, build_vars, parse_vars, select_vars >>

\* "prompt user to overwrite existing file (if necessary)"
ConfirmOverwrite ==
    /\ pc = "main_overwrite"
    /\ \E exists \in BOOLEAN, force \in BOOLEAN, yes \in BOOLEAN :
          IF exists /\ ~force /\ ~yes
          THEN Exit(DeclinedExit, "OverwriteDeclined")
          ELSE pc' = "main_tmpfiles" /\ UNCHANGED << exit_status, outcome, logfile >>
    /\ UNCHANGED << log_vars, build_vars, parse_vars, select_vars >>

\* The two "with tempfile.NamedTemporaryFile(...)": both logs are created,
\* empty, and main calls fake_build.
CreateLogs ==
    /\ pc = "main_tmpfiles"
    /\ logfile' = [c |-> [exists |-> TRUE, delete |-> TRUE],
                   cxx |-> [exists |-> TRUE, delete |-> TRUE]]
    /\ pc' = "fb_platform"
    /\ UNCHANGED << exit_status, outcome, log_vars, build_vars, parse_vars, select_vars >>

(***************************************************************************)
(* fake_build.                                                             *)
(***************************************************************************)
\* The environments a user can start the program in.
OsEnvirons == { {"HOME", "PATH"}, {"HOME", "PATH", "LANG"} }

\* env before the copy: all of os.environ with -e, HOME alone without, then
\* PATH, CC, CXX and the two log paths.
BaseEnv(preserve_environment, os_environ) ==
    (IF preserve_environment THEN os_environ ELSE os_environ \cap {"HOME"})
        \cup {"PATH", "CC", "CXX", "YCM_CONFIG_GEN_CC_LOG", "YCM_CONFIG_GEN_CXX_LOG"}

Passthrough == {"YCM_CONFIG_GEN_CC_PASSTHROUGH", "YCM_CONFIG_GEN_CXX_PASSTHROUGH"}


\* Mutant: "env_config = env" without the copy, so that both names are one
\* dictionary.
MakeEnvs_Aliased(base) ==
    [env |-> base \cup Passthrough, env_config |-> base \cup Passthrough]

\* "env_config = env.copy()" and the two passthrough assignments: the copy
\* gets them, env does not.
MakeEnvs(base) == [env |-> base, env_config |-> base \cup Passthrough]

\* The commands of each branch, in the order run() is called, each with the
\* environment it is given.
Cmd(name, use) == [cmd |-> name, use |-> use]

CmakePlan == << Cmd("cmake", "env_config"), Cmd("make", "env") >>
AutotoolsPlan(out_of_tree) ==
    << Cmd("configure", "env_config"), Cmd("make", "env") >>
        \o (IF out_of_tree THEN << >> ELSE << Cmd("make maintainer-clean", "env") >>)
QmakePlan == << Cmd("qmake", "env_config"), Cmd("make", "env") >>
MakePlan == << Cmd("make clean", "env"), Cmd("make", "env") >>
OpenFoamPlan == << Cmd("wmake", "env") >>

\* What a project directory can hold, and the -b argument.
BuildSystemArgs == {"none", "cmake", "autotools", "qmake", "make"}
ProFileCounts == 0..2
Projects ==
    [arg : BuildSystemArgs, cmakelists : BOOLEAN, configure : BOOLEAN,
     pro_files : ProFileCounts, makefile : BOOLEAN, make_options : BOOLEAN]

\* "if build_system is None": the first marker found names the build system.
Detect(p) ==
    IF p.arg # "none" THEN p.arg
    ELSE IF p.cmakelists THEN "cmake"
    ELSE IF p.configure THEN "autotools"
    ELSE IF p.pro_files > 0 THEN "qmake"
    ELSE IF p.makefile THEN "make"
    ELSE "none"

\* "assert(not sys.platform.startswith("win32"))"
FbAssertPlatform ==
    /\ pc = "fb_platform"
    /\ \E win32 \in BOOLEAN :
          IF win32
          THEN Exit(UncaughtExceptionExit, "UncaughtException")
          ELSE pc' = "fb_env" /\ UNCHANGED << exit_status, outcome, logfile >>
    /\ UNCHANGED << log_vars, build_vars, parse_vars, select_vars >>

\* "environment variables and arguments for build process"
FbSetupEnv ==
    /\ pc = "fb_env"
    /\ \E preserve_environment \in BOOLEAN, os_environ \in OsEnvirons :
          /\ env' = MakeEnvs(BaseEnv(preserve_environment, os_environ)).env
          /\ env_config' = MakeEnvs(BaseEnv(preserve_environment, os_environ)).env_config
    /\ pc' = "fb_toolchain"
    /\ UNCHANGED << exit_status, outcome, logfile, log_vars, build_system, plan,
                    running, returned, build_done, parse_vars, select_vars >>

\* "sanity check - make sure the toolchain is available"
FbAssertToolchain ==
    /\ pc = "fb_toolchain"
    /\ \E found \in BOOLEAN :
          IF found
          THEN pc' = "fb_detect" /\ UNCHANGED << exit_status, outcome, logfile >>
          ELSE Exit(UncaughtExceptionExit, "UncaughtException")
    /\ UNCHANGED << log_vars, build_vars, parse_vars, select_vars >>

\* The branch is entered: its commands are yet to run.
Enter(system, commands) ==
    /\ build_system' = system
    /\ plan' = commands
    /\ pc' = "fb_run"
    /\ UNCHANGED << exit_status, outcome, logfile, log_vars, running, returned,
                    build_done, parse_vars, select_vars >>

\* "if build_system == "cmake""
FbCmake ==
    /\ pc = "fb_detect"
    /\ \E p \in Projects : Detect(p) = "cmake"
    /\ Enter("cmake", CmakePlan)
    /\ UNCHANGED << env, env_config >>

\* "elif build_system == "autotools""
FbAutotools ==
    /\ pc = "fb_detect"
    /\ \E p \in Projects : Detect(p) = "autotools"
    /\ \E out_of_tree \in BOOLEAN : Enter("autotools", AutotoolsPlan(out_of_tree))
    /\ UNCHANGED << env, env_config >>

\* "elif build_system == "qmake"", with exactly one .pro file
FbQmake ==
    /\ pc = "fb_detect"
    /\ \E p \in Projects : Detect(p) = "qmake" /\ p.pro_files = 1
    /\ Enter("qmake", QmakePlan)
    /\ env_config' = env_config \cup {"QT_SELECT", "QMAKESPEC"}
    /\ UNCHANGED env

\* "make sure there is only one .pro file": sys.exit(1)
FbQmakeProFiles ==
    /\ pc = "fb_detect"
    /\ \E p \in Projects : Detect(p) = "qmake" /\ p.pro_files # 1
    /\ Exit(ProFilesExit, "ProFileCount")
    /\ UNCHANGED << log_vars, build_vars, parse_vars, select_vars >>

\* "elif build_system == "make""
FbMake ==
    /\ pc = "fb_detect"
    /\ \E p \in Projects : Detect(p) = "make"
    /\ Enter("make", MakePlan)
    /\ UNCHANGED << env, env_config >>

\* "elif(os.path.exists(os.path.join(project_dir, "Make/options")))"
FbOpenFoam ==
    /\ pc = "fb_detect"
    /\ \E p \in Projects : Detect(p) = "none" /\ p.make_options
    /\ Enter("openfoam", OpenFoamPlan)
    /\ env' = env \cup {"WM_COMPILER", "WM_CC", "WM_CXX"}
    /\ UNCHANGED env_config

\* "ERROR: Unknown build system": sys.exit(2)
FbUnknown ==
    /\ pc = "fb_detect"
    /\ \E p \in Projects : Detect(p) = "none" /\ ~p.make_options
    /\ Exit(UnknownBuildSystemExit, "UnrecognizedBuildSystem")
    /\ UNCHANGED << log_vars, build_vars, parse_vars, select_vars >>

\* The env= argument of a run() call.
CmdEnv(use, e, e_config) == IF use = "env_config" THEN e_config ELSE e

\* run(): subprocess.call starts the next command of the branch.
RunStart ==
    /\ pc = "fb_run"
    /\ running = NoProcess
    /\ plan # << >>
    /\ running' = [cmd |-> Head(plan).cmd, env |-> CmdEnv(Head(plan).use, env, env_config)]
    /\ UNCHANGED << pc, exit_status, outcome, logfile, log_vars, build_system, plan,
                    env, env_config, returned, build_done, parse_vars, select_vars >>

\* run(): subprocess.call raises OSError when the executable of the next
\* command does not exist; nothing catches it.
RunNotFound ==
    /\ pc = "fb_run"
    /\ running = NoProcess
    /\ plan # << >>
    /\ Exit(UncaughtExceptionExit, "UncaughtException")
    /\ UNCHANGED << log_vars, build_vars, parse_vars, select_vars >>

\* A compiler invocation of the running command reaches the C shim, which
\* appends its line to the log YCM_CONFIG_GEN_CC_LOG names.
ShimAppendC ==
    /\ running # NoProcess
    /\ "YCM_CONFIG_GEN_CC_LOG" \in running.env
    /\ Len(c_build_log) < MaxCLines
    /\ \E line \in CLines : c_build_log' = Append(c_build_log, line)
    /\ UNCHANGED << pc, exit_status, outcome, logfile, cxx_build_log, build_vars,
                    parse_vars, select_vars >>

\* The same for the C++ shim and YCM_CONFIG_GEN_CXX_LOG.
ShimAppendCxx ==
    /\ running # NoProcess
    /\ "YCM_CONFIG_GEN_CXX_LOG" \in running.env
    /\ Len(cxx_build_log) < MaxCxxLines
    /\ \E line \in CxxLines : cxx_build_log' = Append(cxx_build_log, line)
    /\ UNCHANGED << pc, exit_status, outcome, logfile, c_build_log, build_vars,
                    parse_vars, select_vars >>

\* subprocess.call returns; its status is ignored.
RunReturn ==
    /\ pc = "fb_run"
    /\ running # NoProcess
    /\ running' = NoProcess
    /\ plan' = Tail(plan)
    /\ returned' = Append(returned, running.cmd)
    /\ UNCHANGED << pc, exit_status, outcome, logfile, log_vars, build_system,
                    env, env_config, build_done, parse_vars, select_vars >>

\* fake_build returns: its locals are gone, main goes on to parse_flags.
FbReturn ==
    /\ pc = "fb_run"
    /\ running = NoProcess
    /\ plan = << >>
    /\ build_system' = "none"
    /\ env' = {}
    /\ env_config' = {}
    /\ returned' = << >>
    /\ build_done' = \E k \in DOMAIN returned : returned[k] \in {"make", "wmake"}
    /\ pc' = "parse_c"
    /\ UNCHANGED << exit_status, outcome, logfile, log_vars, plan, running,
                    parse_vars, select_vars >>

(***************************************************************************)
(* main after fake_build: the two parse_flags calls, the selection of the  *)
(* language and generate_conf.                                             *)
(***************************************************************************)
\* One iteration of parse_flags' loop over the C log.
ParseCLine ==
    /\ pc = "parse_c"
    /\ pos <= Len(c_build_log)
    /\ acc' = ProcessLine(acc, c_build_log[pos])
    /\ pos' = pos + 1
    /\ UNCHANGED << pc, exit_status, outcome, logfile, log_vars, build_vars,
                    c_result, cxx_result, select_vars >>

\* The C log is read: "(c_count, c_skip, c_flags) = parse_flags(c_build_log)".
ParseCReturn ==
    /\ pc = "parse_c"
    /\ pos > Len(c_build_log)
    /\ c_result' = ParseFinish(acc)
    /\ acc' = ParseInit
    /\ pos' = 1
    /\ pc' = "parse_cxx"
    /\ UNCHANGED << exit_status, outcome, logfile, log_vars, build_vars,
                    cxx_result, select_vars >>

\* One iteration of parse_flags' loop over the C++ log.
ParseCxxLine ==
    /\ pc = "parse_cxx"
    /\ pos <= Len(cxx_build_log)
    /\ acc' = ProcessLine(acc, cxx_build_log[pos])
    /\ pos' = pos + 1
    /\ UNCHANGED << pc, exit_status, outcome, logfile, log_vars, build_vars,
                    c_result, cxx_result, select_vars >>

\* "(cxx_count, cxx_skip, cxx_flags) = parse_flags(cxx_build_log)"
ParseCxxReturn ==
    /\ pc = "parse_cxx"
    /\ pos > Len(cxx_build_log)
    /\ cxx_result' = ParseFinish(acc)
    /\ acc' = ParseInit
    /\ pos' = 1
    /\ pc' = "main_select"
    /\ UNCHANGED << exit_status, outcome, logfile, log_vars, build_vars,
                    c_result, select_vars >>

ForceLangs == {"none", "c", "c++"}


\* Mutant: -x zeroes nothing.
ApplyOverride_NoZero(force, c_count, cxx_count) == [c |-> c_count, cxx |-> cxx_count]

\* "If -x was used, zero all other options": (c_count, cxx_count) afterwards.
ApplyOverride(force, c_count, cxx_count) ==
    IF force = "c" THEN [c |-> c_count, cxx |-> 0]
    ELSE IF force = "c++" THEN [c |-> 0, cxx |-> cxx_count]
    ELSE [c |-> c_count, cxx |-> cxx_count]


\* Mutant: the test can never succeed.
NoCommandsLogged_Negative(c_count, cxx_count) == c_count < 0 /\ cxx_count < 0

\* "if(c_count == 0 and cxx_count == 0)"
NoCommandsLogged(c_count, cxx_count) == c_count = 0 /\ cxx_count = 0


\* Mutant: a tie selects C.
SelectLang_TieC(c_count, cxx_count) == IF c_count >= cxx_count THEN "c" ELSE "c++"

\* "elif(c_count > cxx_count): ... else: ..."
SelectLang(c_count, cxx_count) == IF c_count > cxx_count THEN "c" ELSE "c++"

\* The counts main compares, for the -x argument `force`.
Counts(force) == ApplyOverride(force, c_result.line_count, cxx_result.line_count)

\* No relevant invocation is left: both logs are kept and main returns 3.
FailEmptyLog ==
    /\ pc = "main_select"
    /\ \E force \in ForceLangs :
          /\ NoCommandsLogged(Counts(force).c, Counts(force).cxx)
          /\ force_lang' = force
    /\ pc' = "exit"
    /\ exit_status' = EmptyLogExit
    /\ outcome' = "EmptyInvocationLog"
    /\ logfile' = CloseLogs([c |-> [logfile.c EXCEPT !.delete = FALSE],
                             cxx |-> [logfile.cxx EXCEPT !.delete = FALSE]])
    /\ UNCHANGED << log_vars, build_vars, parse_vars, lang, config_file >>

\* The language with more relevant invocations is selected.
SelectLanguage ==
    /\ pc = "main_select"
    /\ \E force \in ForceLangs :
          /\ ~NoCommandsLogged(Counts(force).c, Counts(force).cxx)
          /\ force_lang' = force
          /\ lang' = SelectLang(Counts(force).c, Counts(force).cxx)
    /\ pc' = "main_generate"
    /\ UNCHANGED << exit_status, outcome, logfile, log_vars, build_vars,
                    parse_vars, config_file >>

\* The flags of the selected language.
SelectedFlags == IF lang = "c" THEN c_result.flags ELSE cxx_result.flags

\* "generate_conf(["-x", lang] + flags, config_file)"
GenerateConf ==
    /\ pc = "main_generate"
    /\ config_file' = [written |-> TRUE,
                       flags |-> << Opaque(<< "-", "x" >>), lang >> \o SelectedFlags]
    /\ pc' = "main_end"
    /\ UNCHANGED << exit_status, outcome, logfile, log_vars, build_vars,
                    parse_vars, force_lang, lang >>

\* main falls off its end: the with blocks are left and sys.exit(None).
Finish ==
    /\ pc = "main_end"
    /\ Exit(SuccessExit, "Success")
    /\ UNCHANGED << log_vars, build_vars, parse_vars, select_vars >>

Next ==
    \/ CheckProjectDir
    \/ WhichCC
    \/ WhichCXX
    \/ ConfirmOverwrite
    \/ CreateLogs
    \/ FbAssertPlatform
    \/ FbSetupEnv
    \/ FbAssertToolchain
    \/ FbCmake
    \/ FbAutotools
    \/ FbQmake
    \/ FbQmakeProFiles
    \/ FbMake
    \/ FbOpenFoam
    \/ FbUnknown
    \/ RunStart
    \/ RunNotFound
    \/ ShimAppendC
    \/ ShimAppendCxx
    \/ RunReturn
    \/ FbReturn
    \/ ParseCLine
    \/ ParseCReturn
    \/ ParseCxxLine
    \/ ParseCxxReturn
    \/ FailEmptyLog
    \/ SelectLanguage
    \/ GenerateConf
    \/ Finish

Spec == Init /\ [][Next]_vars

(***************************************************************************)
(* Vocabulary of the properties.                                           *)
(***************************************************************************)
\* parse_flags has returned for the C log.
CParsed ==
    \/ pc \in {"parse_cxx", "main_select", "main_generate", "main_end"}
    \/ pc = "exit" /\ outcome \in {"EmptyInvocationLog", "Success"}

\* parse_flags has just returned for the C log, for the C++ log.
CReturns == pc = "parse_cxx" /\ pos = 1
CxxReturns == pc = "main_select"

\* main has compared the counts.
Selected ==
    \/ pc \in {"main_generate", "main_end"}
    \/ pc = "exit" /\ outcome \in {"EmptyInvocationLog", "Success"}

Range(seq) == {seq[k] : k \in DOMAIN seq}

\* The lines of a log in every order.
Reorderings(log) ==
    {[k \in DOMAIN log |-> log[f[k]]] : f \in Permutations(DOMAIN log)}

\* The literal `p` occurs in the line.
Contains(line, p) == \E i \in 1..Len(line) : StartsWithAt(line, i, p)

\* The words of the admitted lines of a log.
AdmittedWords(log) ==
    UNION {Range(split_flags(log[k])) : k \in {j \in DOMAIN log : ~temp_output(log[j])}}

\* The whitelisted tokens -DNAME=VALUE of the admitted lines, their names,
\* and the values recorded for a name.
MacroTokens(log) == {w \in AdmittedWords(log) : Kept(w) /\ define_regex(w)}
MacroNames(log) == {define_name(w) : w \in MacroTokens(log)}
MacroValues(log, name) ==
    {define_value(w) : w \in {v \in MacroTokens(log) : define_name(v) = name}}

\* The lexicographically greatest of a set of str.
Greatest(S) == CHOOSE v \in S : \A u \in S : ~StrLess(v, u)

\* The flags of a result that have the form -DNAME=...
DefinesOf(result, name) ==
    {f \in Range(result.flags) :
        f.t = "str" /\ StartsWithAt(f.w, 1, << "-", "D" >> \o name \o << "=" >>)}

\* C1: for every macro NAME recorded from the C log, the returned flags hold
\* exactly one -DNAME=... flag; when several distinct values were recorded
\* it carries the lexicographically greatest of them and a warning is
\* printed.
C1_MacroGreatest ==
    CParsed =>
        \A name \in MacroNames(c_build_log) :
            /\ Cardinality(DefinesOf(c_result, name)) = 1
            /\ Cardinality(MacroValues(c_build_log, name)) > 1 =>
                  /\ DefinesOf(c_result, name) =
                        {Opaque(<< "-", "D" >> \o name \o << "=" >>
                                    \o Greatest(MacroValues(c_build_log, name)))}
                  /\ name \in c_result.warnings

\* C2: whatever the order of the lines of a log, parse_flags returns the
\* counts, flags and warnings it returned for the order the build wrote.
C2_OrderIndependent ==
    /\ CReturns => \A log \in Reorderings(c_build_log) : parse_flags(log) = c_result
    /\ CxxReturns => \A log \in Reorderings(cxx_build_log) : parse_flags(log) = cxx_result

\* C2 witness: two different admitted lines that define the same macro
\* differently have been parsed.
C2_Witness ==
    /\ CReturns
    /\ Len(c_build_log) = 2
    /\ c_build_log[1] # c_build_log[2]
    /\ c_result.line_count = 2
    /\ c_result.warnings # {}

\* C3 as stated: generate_conf has written only when the flags of the
\* selected language are not empty.
C3_NonEmptyFlagSet ==
    config_file.written => SelectedFlags # << >>

\* The count of the selected language after the -x override.
SelectedCount ==
    IF lang = "c" THEN (IF force_lang = "c++" THEN 0 ELSE c_result.line_count)
    ELSE (IF force_lang = "c" THEN 0 ELSE cxx_result.line_count)

\* C3 amended: generate_conf is the last step of main, it runs only when
\* the relevant-count of the selected language is positive, and it is
\* handed "-x", the language and that language's flags, which may be none.
C3_PositiveCount ==
    /\ config_file.written =>
          /\ pc \in {"main_end", "exit"}
          /\ outcome \in {"none", "Success"}
          /\ SelectedCount > 0
          /\ config_file.flags = << Opaque(<< "-", "x" >>), lang >> \o SelectedFlags
    /\ pc = "exit" /\ outcome # "Success" => ~config_file.written

\* C3 witness: an artifact has been written for a language with no flag.
C3_Witness ==
    /\ config_file.written
    /\ SelectedFlags = << >>
    /\ pc = "exit"

\* The counts once the -x override has zeroed the other language.
EffectiveC == IF force_lang = "c++" THEN 0 ELSE c_result.line_count
EffectiveCxx == IF force_lang = "c" THEN 0 ELSE cxx_result.line_count

\* C4: when both counts are zero after the override, main has ended with
\* status 3 and generate_conf was not called.
C4_EmptyLogFails ==
    Selected /\ EffectiveC = 0 /\ EffectiveCxx = 0 =>
        /\ pc = "exit"
        /\ exit_status = 3
        /\ outcome = "EmptyInvocationLog"
        /\ ~config_file.written

\* C4 witness: -x c++ discarded the relevant C invocations and the run
\* failed.
C4_Witness ==
    /\ pc = "exit"
    /\ exit_status = 3
    /\ force_lang = "c++"
    /\ c_result.line_count > 0

\* The run failed for want of invocations; the run selected language l.
FailedEmpty == pc = "exit" /\ outcome = "EmptyInvocationLog" /\ lang = "none"
Emits(l) ==
    /\ lang = l
    /\ pc \in {"main_generate", "main_end"} \/ (pc = "exit" /\ outcome = "Success")

\* C5: the outcome of the selection for every (c_count, cxx_count, -x).
C5_LanguageSelector ==
    Selected =>
        LET c == c_result.line_count
            cxx == cxx_result.line_count
        IN  /\ force_lang = "c" => IF c > 0 THEN Emits("c") ELSE FailedEmpty
            /\ force_lang = "c++" => IF cxx > 0 THEN Emits("c++") ELSE FailedEmpty
            /\ force_lang = "none" =>
                  IF c = 0 /\ cxx = 0 THEN FailedEmpty
                  ELSE IF c > cxx THEN Emits("c")
                  ELSE Emits("c++")

\* C5 witness: equal non-zero counts without -x selected C++.
C5_Witness ==
    /\ Selected
    /\ force_lang = "none"
    /\ c_result.line_count = cxx_result.line_count
    /\ c_result.line_count > 0
    /\ lang = "c++"

\* The line has the word w.
HasWord(line, w) == w \in Range(WhitespaceSplit(line))

\* parse_flags is about to read this line of the C log, of either log.
ReadingC(line) == pc = "parse_c" /\ pos <= Len(c_build_log) /\ line = c_build_log[pos]
Reading(line) ==
    \/ ReadingC(line)
    \/ pc = "parse_cxx" /\ pos <= Len(cxx_build_log) /\ line = cxx_build_log[pos]

\* The step discards the line: the skip-count grows by one, and the
\* relevant-count, the flags and the macros stay as they were.
Discards == acc' = [acc EXCEPT !.skip_count = @ + 1]

\* The markers the claim names: -S, -E (preprocessor only), /dev/null.
ClaimedIrrelevant(line) ==
    \/ HasWord(line, << "-", "S" >>)
    \/ HasWord(line, << "-", "E" >>)
    \/ Contains(line, << "/", "d", "e", "v", "/", "n", "u", "l", "l" >>)

\* The markers the filter has: -x assembler, -o followed by one of
\* [a-zA-Z0-9._], any character and tmp, and /dev/null.
FilterMarker(line) ==
    \/ Contains(line, << "-", "x", " ", "a", "s", "s", "e", "m", "b", "l", "e", "r" >>)
    \/ \E i \in 1..Len(line) : TmpOutputAt(line, i)
    \/ Contains(line, << "/", "d", "e", "v", "/", "n", "u", "l", "l" >>)

FilenameOptions ==
    { << "-", "o" >>, << "-", "I" >>,
      << "-", "i", "s", "y", "s", "t", "e", "m" >>,
      << "-", "i", "q", "u", "o", "t", "e" >>,
      << "-", "i", "n", "c", "l", "u", "d", "e" >>,
      << "-", "i", "m", "a", "c", "r", "o", "s" >>,
      << "-", "i", "s", "y", "s", "r", "o", "o", "t" >> }

\* The loop state before the i-th word of the line parse_flags is about to
\* read, and the flags the loop adds at the i-th word.
Before(words, i) ==
    ProcessWordsTo([acc EXCEPT !.line_count = @ + 1], words, 1, i - 1)
AddedAt(words, i) ==
    ProcessWord([Before(words, i) EXCEPT !.flags = {}], words, i).flags

\* C7: at a kept filename-taking option, the loop adds the pair (option,
\* argument) alone when the next word does not begin with -, and nothing at
\* the argument; it adds the bare option when the option is the last word
\* or the next word begins with -.  The macros are not touched.
C7_Bundling ==
    \A line \in CLines :
        ReadingC(line) /\ ~temp_output(line) =>
            LET words == split_flags(line)
            IN  \A i \in DOMAIN words :
                    Kept(words[i]) /\ words[i] \in FilenameOptions =>
                        /\ IF i < Len(words) /\ words[i + 1][1] # "-"
                           THEN /\ AddedAt(words, i) = {Pair(words[i], words[i + 1])}
                                /\ AddedAt(words, i + 1) = {}
                           ELSE AddedAt(words, i) = {Opaque(words[i])}
                        /\ AddedAt(words, i) \subseteq
                               ProcessLine(acc, line).flags
                        /\ ProcessWord(Before(words, i), words, i).define_flags
                               = Before(words, i).define_flags

\* C7 witness: -I /inc was read: the pair is in the flags, and neither -I
\* nor /inc is.
C7_Witness ==
    /\ pc = "parse_c"
    /\ pos = 2
    /\ HasWord(c_build_log[1], << "-", "I" >>)
    /\ Pair(<< "-", "I" >>, << "/", "i", "n", "c" >>) \in acc.flags
    /\ Opaque(<< "-", "I" >>) \notin acc.flags
    /\ Opaque(<< "/", "i", "n", "c" >>) \notin acc.flags

\* A word-size flag: -m followed only by digits.
IsWordSize(w) ==
    /\ Len(w) >= 3
    /\ w[1] = "-"
    /\ w[2] = "m"
    /\ \A k \in 3..Len(w) : w[k] \in {"0", "1", "2", "3", "4", "5", "6", "7", "8", "9"}

\* The word-size flags among the flags parse_flags returned, and those the
\* admitted lines of the log contribute.
WordSizesOf(result) == {f \in Range(result.flags) : f.t = "str" /\ IsWordSize(f.w)}
WordSizesIn(log) == {w \in AdmittedWords(log) : IsWordSize(w)}

\* C8: the returned flags hold at most one word-size flag, the string
\* maximum of those contributed, and every other flag the loop collected.
C8_WordSize ==
    CReturns =>
        /\ Cardinality(WordSizesOf(c_result)) <= 1
        /\ WordSizesIn(c_build_log) # {} =>
              WordSizesOf(c_result) = {Opaque(Greatest(WordSizesIn(c_build_log)))}
        /\ WordSizesIn(c_build_log) = {} => WordSizesOf(c_result) = {}
        /\ LET collected == ProcessLines(ParseInit, c_build_log, 1).flags
           IN  {f \in collected : ~(f.t = "str" /\ IsWordSize(f.w))}
                   \subseteq Range(c_result.flags)

\* C8 witness: -m32 and -m64 were both contributed and -m64 alone is left.
C8_Witness ==
    /\ CReturns
    /\ WordSizesIn(c_build_log) = { << "-", "m", "3", "2" >>, << "-", "m", "6", "4" >> }
    /\ WordSizesOf(c_result) = {Opaque(<< "-", "m", "6", "4" >>)}

ConfigCommands == {"cmake", "configure", "qmake"}
MakeCommands == {"make", "make clean", "make maintainer-clean", "wmake"}

LogsOnDisk == logfile.c.exists /\ logfile.cxx.exists
LogsGone == ~logfile.c.exists /\ ~logfile.cxx.exists
InsideWith ==
    pc \in {"fb_platform", "fb_env", "fb_toolchain", "fb_detect", "fb_run",
            "parse_c", "parse_cxx", "main_select", "main_generate", "main_end"}

\* C11: both log files are on disk from before fake_build starts until
\* main leaves the with blocks, in particular whenever a command of the
\* build runs; once the run has ended both are on disk if it ended with
\* EmptyInvocationLog and both are gone on every other exit path.
C11_LogLifetime ==
    /\ InsideWith => LogsOnDisk
    /\ running # NoProcess /\ pc # "exit" => LogsOnDisk
    /\ pc = "exit" =>
          IF outcome = "EmptyInvocationLog" THEN LogsOnDisk ELSE LogsGone

\* C11 witness: a build ran and logged only an irrelevant invocation, the
\* run ended with EmptyInvocationLog and both logs are still on disk.
C11_Witness ==
    /\ pc = "exit"
    /\ outcome = "EmptyInvocationLog"
    /\ exit_status = EmptyLogExit
    /\ build_done
    /\ c_build_log # << >>
    /\ LogsOnDisk

====
